---- MODULE Spec2Model ----
(***************************************************************************)
(* Model of ocl's async RwVec (src/async/rw_vec.rs): a Qutex-protected     *)
(* Vec whose lock requests (PendingRwGuard) additionally wait on OpenCL    *)
(* events, and the RwGuard they resolve into.                              *)
(*                                                                         *)
(* Requests are numbered 1, 2, ... in the order lock_pending_event is      *)
(* called.  Every public operation (lock_pending_event, set_command_event, *)
(* poll, drop of a PendingRwGuard, drop of a RwGuard) is one atomic step;  *)
(* the OpenCL events complete in steps of their own.                       *)
(***************************************************************************)
EXTENDS Integers, Sequences, FiniteSets

\* Number of lock requests made over the life of one RwVec.
MaxReq == 3

Reqs == 1..MaxReq

\* The call sites of a poll that can return an error from the OpenCL layer.
Faults == {"none", "wait_query", "wait_callback", "set_complete",
           "cmd_query", "cmd_callback"}

VARIABLES
    nreq,           \* number of lock_pending_event calls made so far
    queue,          \* Qutex: inner.queue, the requests' ids in FIFO order
    state,          \* Qutex: inner.state, 0 = unlocked, 1 = locked
    life,           \* per request: "none", "live", "dropped", "failed"
    stage,          \* PendingRwGuard.stage
    rw_vec,         \* PendingRwGuard.rw_vec is Some(..)
    rx,             \* PendingRwGuard.rx, the request's one-shot channel:
                    \* "Pending", "Fired" (sent, not received yet), "Taken"
                    \* (received), "Closed" (receiver dropped, nothing
                    \* sent), "Lost" (sent after the receiver was dropped)
    wait_event,     \* PendingRwGuard.wait_event: "none", "pending", "complete"
    trigger_event,  \* PendingRwGuard.trigger_event: "pending", "complete"
    command_event,  \* PendingRwGuard.command_event: "none", "pending", "complete"
    guards,         \* the requests whose RwGuard exists
    last,           \* the last operation: for a poll, the request, the
                    \* result, whether process_queue was called, and the
                    \* stage the poll started from
    missed,         \* history: the live, unresolved requests a poll of which
                    \* has returned the "No command event set" error
    pc              \* per request, where the thread that polls it or drops
                    \* its RwGuard stands inside the Qutex ("idle" between
                    \* calls; used by the interleaved specification only)

vars == <<nreq, queue, state, life, stage, rw_vec, rx, wait_event,
          trigger_event, command_event, guards, last, missed, pc>>

NoOp == [op |-> "none", r |-> 0, res |-> "none", advanced |-> FALSE,
         from |-> "none"]

----------------------------------------------------------------------------
(* Qutex: the FIFO lock the RwVec wraps.                                   *)

\* Qutex::push_request: append the request at the tail of the queue.
push_request(q, r) == Append(q, r)

\* oneshot::Sender::send on a request's channel.
send(ch) == IF ch = "Closed" THEN "Lost" ELSE "Fired"

\* Qutex::process_queue on the lock fields s.state, s.queue and the
\* requests' channels s.rx: when unlocked and a request is queued, pop the
\* head, fire its notification and mark the lock held; otherwise nothing.
process_queue(s) ==
    IF s.state = 0 /\ s.queue # <<>>
    THEN [s EXCEPT !.state = 1,
                   !.queue = Tail(s.queue),
                   !.rx = [s.rx EXCEPT ![Head(s.queue)] = send(@)]]
    ELSE s

\* Qutex::unlock: mark the lock free, then move the queue along.
unlock(s) == process_queue([s EXCEPT !.state = 0])

----------------------------------------------------------------------------
(* PendingRwGuard                                                          *)

\* The part of the state a poll works on.
Cur == [state |-> state, queue |-> queue, rx |-> rx, stage |-> stage,
        rw_vec |-> rw_vec, trigger_event |-> trigger_event,
        guards |-> guards, advanced |-> FALSE]

Out(s, res) == [s |-> s, res |-> res]

\* PendingRwGuard::poll_command
poll_command(s, r, fault) ==
    IF command_event[r] = "none"
    THEN Out(s, "ErrNoCommandEvent")
    ELSE IF fault = "cmd_query"
    THEN Out(s, "ErrEvent")
    ELSE IF command_event[r] = "pending"
    THEN IF fault = "cmd_callback"
         THEN Out(s, "ErrEvent")
         ELSE Out(s, "NotReady")
    ELSE Out([s EXCEPT !.rw_vec[r] = FALSE, !.guards = @ \cup {r}], "Ready")

\* poll_qutex as it would be if a channel that has not fired yet were taken
\* for the grant.
poll_qutex_NoGrantCheck(s, r, fault) ==
    LET q == [process_queue(s) EXCEPT !.advanced = TRUE]
    IN  IF q.rx[r] = "Taken"
        THEN Out(q, "ErrCanceled")
        ELSE IF fault = "set_complete"
        THEN Out([q EXCEPT !.rx[r] = "Taken"], "ErrEvent")
        ELSE poll_command([q EXCEPT !.rx[r] = "Taken",
                                    !.trigger_event[r] = "complete",
                                    !.stage[r] = "Command"], r, fault)

\* poll_qutex as it would be if it called unlock where it calls
\* process_queue.
poll_qutex_Unlock(s, r, fault) ==
    LET q == [unlock(s) EXCEPT !.advanced = TRUE]
    IN  CASE q.rx[r] = "Fired" ->
                IF fault = "set_complete"
                THEN Out([q EXCEPT !.rx[r] = "Taken"], "ErrEvent")
                ELSE poll_command([q EXCEPT !.rx[r] = "Taken",
                                            !.trigger_event[r] = "complete",
                                            !.stage[r] = "Command"], r, fault)
          [] q.rx[r] = "Pending" -> Out(q, "NotReady")
          [] q.rx[r] = "Taken" -> Out(q, "ErrCanceled")

\* poll_qutex as it would be if the result of set_complete were ignored.
poll_qutex_IgnoreSetComplete(s, r, fault) ==
    LET q == [process_queue(s) EXCEPT !.advanced = TRUE]
    IN  CASE q.rx[r] = "Fired" ->
                poll_command([q EXCEPT !.rx[r] = "Taken",
                                       !.trigger_event[r] =
                                           IF fault = "set_complete"
                                           THEN @ ELSE "complete",
                                       !.stage[r] = "Command"], r, fault)
          [] q.rx[r] = "Pending" -> Out(q, "NotReady")
          [] q.rx[r] = "Taken" -> Out(q, "ErrCanceled")

\* PendingRwGuard::poll_qutex after its call of process_queue: the match on
\* self.rx.poll().
poll_rx(q, r, fault) ==
    CASE q.rx[r] = "Fired" ->
            IF fault = "set_complete"
            THEN Out([q EXCEPT !.rx[r] = "Taken"], "ErrEvent")
            ELSE poll_command([q EXCEPT !.rx[r] = "Taken",
                                        !.trigger_event[r] = "complete",
                                        !.stage[r] = "Command"], r, fault)
      [] q.rx[r] = "Pending" -> Out(q, "NotReady")
      [] q.rx[r] = "Taken" -> Out(q, "ErrCanceled")

\* PendingRwGuard::poll_qutex
poll_qutex(s, r, fault) ==
    poll_rx([process_queue(s) EXCEPT !.advanced = TRUE], r, fault)

\* poll_marker as it would be if it went from Marker straight to Command.
poll_marker_SkipQutex(s, r, fault) ==
    IF wait_event[r] # "none" /\ fault = "wait_query"
    THEN Out(s, "ErrEvent")
    ELSE IF wait_event[r] = "pending"
    THEN IF fault = "wait_callback"
         THEN Out(s, "ErrEvent")
         ELSE Out(s, "NotReady")
    ELSE poll_command([s EXCEPT !.stage[r] = "Command"], r, fault)

\* poll_marker as it would be if it returned NotReady on leaving Marker and
\* left the queue to the next poll.
poll_marker_ExtraTurn(s, r, fault) ==
    IF wait_event[r] # "none" /\ fault = "wait_query"
    THEN Out(s, "ErrEvent")
    ELSE IF wait_event[r] = "pending"
    THEN IF fault = "wait_callback"
         THEN Out(s, "ErrEvent")
         ELSE Out(s, "NotReady")
    ELSE Out([s EXCEPT !.stage[r] = "Qutex"], "NotReady")

\* poll_marker as it would be if it moved the queue along before looking at
\* the wait event.
poll_marker_AdvanceFirst(s, r, fault) ==
    LET q == [process_queue(s) EXCEPT !.advanced = TRUE]
    IN  IF wait_event[r] # "none" /\ fault = "wait_query"
        THEN Out(q, "ErrEvent")
        ELSE IF wait_event[r] = "pending"
        THEN IF fault = "wait_callback"
             THEN Out(q, "ErrEvent")
             ELSE Out(q, "NotReady")
        ELSE poll_qutex([q EXCEPT !.stage[r] = "Qutex"], r, fault)

\* poll_marker as it would be if it completed the trigger event on leaving
\* Marker.
poll_marker_EarlyTrigger(s, r, fault) ==
    IF wait_event[r] # "none" /\ fault = "wait_query"
    THEN Out(s, "ErrEvent")
    ELSE IF wait_event[r] = "pending"
    THEN IF fault = "wait_callback"
         THEN Out(s, "ErrEvent")
         ELSE Out(s, "NotReady")
    ELSE poll_qutex([s EXCEPT !.stage[r] = "Qutex",
                              !.trigger_event[r] = "complete"], r, fault)

\* poll_marker as it would be if a failed is_complete counted as "not
\* complete".
poll_marker_SwallowQuery(s, r, fault) ==
    IF wait_event[r] # "none" /\ fault = "wait_query"
    THEN Out(s, "NotReady")
    ELSE IF wait_event[r] = "pending"
    THEN IF fault = "wait_callback"
         THEN Out(s, "ErrEvent")
         ELSE Out(s, "NotReady")
    ELSE poll_qutex([s EXCEPT !.stage[r] = "Qutex"], r, fault)

\* PendingRwGuard::poll_marker
poll_marker(s, r, fault) ==
    IF wait_event[r] # "none" /\ fault = "wait_query"
    THEN Out(s, "ErrEvent")
    ELSE IF wait_event[r] = "pending"
    THEN IF fault = "wait_callback"
         THEN Out(s, "ErrEvent")
         ELSE Out(s, "NotReady")
    ELSE poll_qutex([s EXCEPT !.stage[r] = "Qutex"], r, fault)

\* poll as it would be without the test of rw_vec.
poll_result_NoSomeCheck(s, r, fault) ==
    CASE s.stage[r] = "Marker" -> poll_marker(s, r, fault)
      [] s.stage[r] = "Qutex" -> poll_qutex(s, r, fault)
      [] s.stage[r] = "Command" -> poll_command(s, r, fault)

\* <PendingRwGuard as Future>::poll, as a function of the state
poll_result(s, r, fault) ==
    IF s.rw_vec[r]
    THEN CASE s.stage[r] = "Marker" -> poll_marker(s, r, fault)
           [] s.stage[r] = "Qutex" -> poll_qutex(s, r, fault)
           [] s.stage[r] = "Command" -> poll_command(s, r, fault)
    ELSE Out(s, "ErrAlreadyCompleted")

\* <PendingRwGuard as Future>::poll
poll(r, fault) ==
    /\ life[r] = "live"
    /\ LET o == poll_result(Cur, r, fault)
       IN  /\ state' = o.s.state
           /\ queue' = o.s.queue
           /\ rx' = o.s.rx
           /\ stage' = o.s.stage
           /\ rw_vec' = o.s.rw_vec
           /\ trigger_event' = o.s.trigger_event
           /\ guards' = o.s.guards
           /\ last' = [op |-> "poll", r |-> r, res |-> o.res,
                       advanced |-> o.s.advanced, from |-> stage[r]]
           /\ missed' = CASE o.res = "ErrNoCommandEvent" -> missed \cup {r}
                          [] o.res = "Ready" -> missed \ {r}
                          [] OTHER -> missed
    /\ UNCHANGED <<nreq, life, wait_event, command_event, pc>>

\* PendingRwGuard::set_command_event
set_command_event(r, ev) ==
    /\ life[r] = "live"
    /\ command_event' = [command_event EXCEPT ![r] = ev]
    /\ last' = NoOp
    /\ UNCHANGED <<missed, pc>>
    /\ UNCHANGED <<nreq, queue, state, life, stage, rw_vec, rx, wait_event,
                   trigger_event, guards>>

\* A PendingRwGuard goes out of scope: it has no Drop of its own, so only
\* its fields are dropped (its reference to the Qutex, the receiver and its
\* handles on the events); the Qutex is not touched.  stage and rw_vec keep
\* the values the request had when it was dropped, and a channel that has
\* not fired is closed.
PendingRwGuardDrop(r) ==
    /\ life[r] = "live"
    /\ life' = [life EXCEPT ![r] = "dropped"]
    /\ wait_event' = [wait_event EXCEPT ![r] = "none"]
    /\ command_event' = [command_event EXCEPT ![r] = "none"]
    /\ rx' = [rx EXCEPT ![r] = IF @ = "Pending" THEN "Closed" ELSE @]
    /\ last' = NoOp
    /\ missed' = missed \ {r}
    /\ UNCHANGED pc
    /\ UNCHANGED <<nreq, queue, state, stage, rw_vec, trigger_event, guards>>

----------------------------------------------------------------------------
(* RwVec and RwGuard                                                       *)

\* lock_pending_event as it would be if the request went to the front of the
\* queue.
lock_pending_event_PushFront(wait, fail) ==
    /\ nreq < MaxReq
    /\ LET r == nreq + 1
       IN  /\ nreq' = r
           /\ queue' = <<r>> \o queue
           /\ life' = [life EXCEPT ![r] = IF fail THEN "failed" ELSE "live"]
           /\ wait_event' = [wait_event EXCEPT ![r] = IF fail THEN "none" ELSE wait]
           /\ rx' = [rx EXCEPT ![r] = IF fail THEN "Closed" ELSE @]
    /\ last' = NoOp
    /\ UNCHANGED <<missed, pc>>
    /\ UNCHANGED <<state, stage, rw_vec, trigger_event, command_event, guards>>

\* RwVec::lock_pending_event with PendingRwGuard::new: the request is pushed
\* first, then the trigger event is created, which can fail (fail = TRUE).
lock_pending_event(wait, fail) ==
    /\ nreq < MaxReq
    /\ LET r == nreq + 1
       IN  /\ nreq' = r
           /\ queue' = push_request(queue, r)
           /\ life' = [life EXCEPT ![r] = IF fail THEN "failed" ELSE "live"]
           /\ wait_event' = [wait_event EXCEPT ![r] = IF fail THEN "none" ELSE wait]
           /\ rx' = [rx EXCEPT ![r] = IF fail THEN "Closed" ELSE @]
    /\ last' = NoOp
    /\ UNCHANGED <<missed, pc>>
    /\ UNCHANGED <<state, stage, rw_vec, trigger_event, command_event, guards>>

\* The drop of a RwGuard as it would be if it only marked the lock free.
RwGuardDrop_NoAdvance(r) ==
    /\ r \in guards
    /\ state' = 0
    /\ guards' = guards \ {r}
    /\ last' = [NoOp EXCEPT !.op = "drop_guard", !.r = r]
    /\ UNCHANGED <<missed, pc>>
    /\ UNCHANGED <<nreq, queue, rx, life, stage, rw_vec, wait_event,
                   trigger_event, command_event>>

\* impl Drop for RwGuard
RwGuardDrop(r) ==
    /\ r \in guards
    /\ LET u == unlock(Cur)
       IN  /\ state' = u.state
           /\ queue' = u.queue
           /\ rx' = u.rx
    /\ guards' = guards \ {r}
    /\ last' = [NoOp EXCEPT !.op = "drop_guard", !.r = r]
    /\ UNCHANGED <<missed, pc>>
    /\ UNCHANGED <<nreq, life, stage, rw_vec, wait_event, trigger_event,
                   command_event>>

----------------------------------------------------------------------------
(* OpenCL events completing on the device side.                            *)

WaitEventCompletes(r) ==
    /\ life[r] = "live"
    /\ wait_event[r] = "pending"
    /\ wait_event' = [wait_event EXCEPT ![r] = "complete"]
    /\ last' = NoOp
    /\ UNCHANGED <<missed, pc>>
    /\ UNCHANGED <<nreq, queue, state, life, stage, rw_vec, rx, trigger_event,
                   command_event, guards>>

CommandEventCompletes(r) ==
    /\ life[r] = "live"
    /\ command_event[r] = "pending"
    /\ command_event' = [command_event EXCEPT ![r] = "complete"]
    /\ last' = NoOp
    /\ UNCHANGED <<missed, pc>>
    /\ UNCHANGED <<nreq, queue, state, life, stage, rw_vec, rx, wait_event,
                   trigger_event, guards>>

----------------------------------------------------------------------------

Init ==
    /\ nreq = 0
    /\ queue = <<>>
    /\ state = 0
    /\ life = [r \in Reqs |-> "none"]
    /\ stage = [r \in Reqs |-> "Marker"]
    /\ rw_vec = [r \in Reqs |-> TRUE]
    /\ rx = [r \in Reqs |-> "Pending"]
    /\ wait_event = [r \in Reqs |-> "none"]
    /\ trigger_event = [r \in Reqs |-> "pending"]
    /\ command_event = [r \in Reqs |-> "none"]
    /\ guards = {}
    /\ last = NoOp
    /\ missed = {}
    /\ pc = [r \in Reqs |-> "idle"]

Next ==
    \/ \E wait \in {"none", "pending", "complete"}, fail \in BOOLEAN :
            lock_pending_event(wait, fail)
    \/ \E r \in Reqs, ev \in {"pending", "complete"} : set_command_event(r, ev)
    \/ \E r \in Reqs, fault \in Faults : poll(r, fault)
    \/ \E r \in Reqs : PendingRwGuardDrop(r)
    \/ \E r \in Reqs : RwGuardDrop(r)
    \/ \E r \in Reqs : WaitEventCompletes(r)
    \/ \E r \in Reqs : CommandEventCompletes(r)

Spec == Init /\ [][Next]_vars

----------------------------------------------------------------------------
(* The same operations with the Qutex calls interleaved.  process_queue is *)
(* a test-and-set of the lock flag, then a pop of the queue by the thread  *)
(* that won it, which fires the popped request's notification or, when    *)
(* the queue is empty, clears the flag again; unlock clears the flag and   *)
(* then runs process_queue.  pc[r] is the position of the thread that      *)
(* polls request r or drops its RwGuard.                                   *)

\* The poll reaches process_queue: the request is unresolved and in stage
\* Qutex, or in stage Marker with its wait event absent or complete.
ReachesQueue(r, fault) ==
    /\ rw_vec[r]
    /\ \/ stage[r] = "Qutex"
       \/ /\ stage[r] = "Marker"
          /\ wait_event[r] # "pending"
          /\ ~(wait_event[r] # "none" /\ fault = "wait_query")

\* poll as it would be if it called unlock where it calls process_queue: the
\* flag is cleared first, so the test-and-set always wins.
conc_poll_Unlock(r, fault) ==
    /\ life[r] = "live" /\ pc[r] = "idle"
    /\ ReachesQueue(r, fault)
    /\ fault \in {"none", "wait_query"}
    /\ stage' = [stage EXCEPT ![r] = "Qutex"]
    /\ state' = 1
    /\ pc' = [pc EXCEPT ![r] = "poll_pop"]
    /\ UNCHANGED <<nreq, queue, life, rw_vec, rx, wait_event, trigger_event,
                   command_event, guards, last, missed>>

\* poll up to the test-and-set of process_queue (poll_marker, then the start
\* of poll_qutex).
conc_poll(r, fault) ==
    /\ life[r] = "live" /\ pc[r] = "idle"
    /\ ReachesQueue(r, fault)
    /\ fault \in {"none", "wait_query"}
    /\ stage' = [stage EXCEPT ![r] = "Qutex"]
    /\ state' = 1
    /\ pc' = [pc EXCEPT ![r] = IF state = 0 THEN "poll_pop" ELSE "poll_rx"]
    /\ UNCHANGED <<nreq, queue, life, rw_vec, rx, wait_event, trigger_event,
                   command_event, guards, last, missed>>

\* A poll that does not reach process_queue is one step, as before.
conc_poll_short(r, fault) ==
    /\ pc[r] = "idle"
    /\ ~ReachesQueue(r, fault)
    /\ poll(r, fault)

\* process_queue, second step: the winner of the test-and-set pops the
\* queue and fires the notification of the request it popped.
conc_pop(r) ==
    /\ pc[r] \in {"poll_pop", "drop_pop"}
    /\ IF queue # <<>>
       THEN /\ queue' = Tail(queue)
            /\ rx' = [rx EXCEPT ![Head(queue)] = send(@)]
            /\ pc' = [pc EXCEPT ![r] = IF @ = "poll_pop" THEN "poll_rx"
                                                          ELSE "idle"]
       ELSE /\ pc' = [pc EXCEPT ![r] = IF @ = "poll_pop" THEN "poll_store"
                                                          ELSE "drop_store"]
            /\ UNCHANGED <<queue, rx>>
    /\ UNCHANGED <<nreq, state, life, stage, rw_vec, wait_event,
                   trigger_event, command_event, guards, last, missed>>

\* process_queue, last step on an empty queue: the flag is cleared again.
conc_store(r) ==
    /\ pc[r] \in {"poll_store", "drop_store"}
    /\ state' = 0
    /\ pc' = [pc EXCEPT ![r] = IF @ = "poll_store" THEN "poll_rx" ELSE "idle"]
    /\ UNCHANGED <<nreq, queue, life, stage, rw_vec, rx, wait_event,
                   trigger_event, command_event, guards, last, missed>>

\* The rest of poll_qutex once process_queue has returned.
conc_poll_rx(r, fault) ==
    /\ pc[r] = "poll_rx"
    /\ fault \in {"none", "set_complete", "cmd_query", "cmd_callback"}
    /\ LET o == poll_rx([Cur EXCEPT !.advanced = TRUE], r, fault)
       IN  /\ rx' = o.s.rx
           /\ stage' = o.s.stage
           /\ rw_vec' = o.s.rw_vec
           /\ trigger_event' = o.s.trigger_event
           /\ guards' = o.s.guards
           /\ last' = [op |-> "poll", r |-> r, res |-> o.res,
                       advanced |-> TRUE, from |-> "Qutex"]
           /\ missed' = CASE o.res = "ErrNoCommandEvent" -> missed \cup {r}
                          [] o.res = "Ready" -> missed \ {r}
                          [] OTHER -> missed
    /\ pc' = [pc EXCEPT ![r] = "idle"]
    /\ UNCHANGED <<nreq, queue, state, life, wait_event, command_event>>

\* impl Drop for RwGuard, first step: unlock clears the flag.
conc_drop(r) ==
    /\ r \in guards /\ pc[r] = "idle"
    /\ state' = 0
    /\ guards' = guards \ {r}
    /\ pc' = [pc EXCEPT ![r] = "drop_tas"]
    /\ last' = [NoOp EXCEPT !.op = "drop_guard", !.r = r]
    /\ UNCHANGED <<nreq, queue, life, stage, rw_vec, rx, wait_event,
                   trigger_event, command_event, missed>>

\* impl Drop for RwGuard, second step: the test-and-set of the
\* process_queue that unlock calls.
conc_drop_tas(r) ==
    /\ pc[r] = "drop_tas"
    /\ state' = 1
    /\ pc' = [pc EXCEPT ![r] = IF state = 0 THEN "drop_pop" ELSE "idle"]
    /\ UNCHANGED <<nreq, queue, life, stage, rw_vec, rx, wait_event,
                   trigger_event, command_event, guards, last, missed>>

\* Operations of the other methods, taken between the calls of the
\* request's own thread.
conc_other ==
    \/ \E wait \in {"none", "pending", "complete"}, fail \in BOOLEAN :
            lock_pending_event(wait, fail)
    \/ \E r \in Reqs, ev \in {"pending", "complete"} :
            pc[r] = "idle" /\ set_command_event(r, ev)
    \/ \E r \in Reqs : pc[r] = "idle" /\ PendingRwGuardDrop(r)
    \/ \E r \in Reqs : WaitEventCompletes(r)
    \/ \E r \in Reqs : CommandEventCompletes(r)

NextConc ==
    \/ conc_other
    \/ \E r \in Reqs, fault \in Faults : conc_poll(r, fault)
    \/ \E r \in Reqs, fault \in Faults : conc_poll_short(r, fault)
    \/ \E r \in Reqs : conc_pop(r)
    \/ \E r \in Reqs : conc_store(r)
    \/ \E r \in Reqs, fault \in Faults : conc_poll_rx(r, fault)
    \/ \E r \in Reqs : conc_drop(r)
    \/ \E r \in Reqs : conc_drop_tas(r)

SpecConc == Init /\ [][NextConc]_vars

TypeOK ==
    /\ nreq \in 0..MaxReq
    /\ state \in {0, 1}
    /\ guards \subseteq Reqs
    /\ missed \subseteq Reqs
    /\ pc \in [Reqs -> {"idle", "poll_pop", "poll_store", "poll_rx",
                        "drop_tas", "drop_pop", "drop_store"}]
    /\ \A r \in Reqs :
        /\ life[r] \in {"none", "live", "dropped", "failed"}
        /\ stage[r] \in {"Marker", "Qutex", "Command"}
        /\ rw_vec[r] \in BOOLEAN
        /\ rx[r] \in {"Pending", "Fired", "Taken", "Closed", "Lost"}
        /\ wait_event[r] \in {"none", "pending", "complete"}
        /\ trigger_event[r] \in {"pending", "complete"}
        /\ command_event[r] \in {"none", "pending", "complete"}

----------------------------------------------------------------------------
(* Vocabulary of the properties.                                           *)

\* The request's one-shot notification has fired: it was popped from the
\* head of the queue and given the lock.
Granted(r) == rx[r] \in {"Fired", "Taken", "Lost"}

\* The request has resolved: its poll returned Ready and moved rw_vec out.
Resolved(r) == ~rw_vec[r]

\* The request that was given the lock last, 0 before any grant.  While the
\* lock is held it is the request the lock was given to.
LastGranted ==
    IF \E r \in Reqs : Granted(r)
    THEN CHOOSE r \in Reqs : Granted(r) /\ \A q \in Reqs : Granted(q) => q <= r
    ELSE 0

Polled(r, res) == last.op = "poll" /\ last.r = r /\ last.res = res

----------------------------------------------------------------------------
\* C1 (mutual exclusion): in every reachable state at most one RwGuard of the
\* RwVec exists, whatever the interleaving of lock_pending_event,
\* set_command_event, poll, event completions and drops.
C1_MutualExclusion == Cardinality(guards) <= 1

\* A RwGuard exists while another live request, already in stage Qutex, has
\* just been polled and was told NotReady.
C1_Witness ==
    \E g \in guards : \E q \in Reqs \ {g} :
        /\ life[q] = "live" /\ stage[q] = "Qutex"
        /\ Polled(q, "NotReady")

\* C2 (FIFO): grants are issued in the order of the lock_pending_event calls:
\* a granted request was created, every request created before it has been
\* granted too, and whatever is still queued was created after it.
C2_FifoGrants ==
    \A r \in Reqs :
        Granted(r) =>
            /\ r <= nreq
            /\ \A q \in 1..(r - 1) : Granted(q)
            /\ \A i \in 1..Len(queue) : queue[i] > r

\* Request 2 is past its wait event and polling the queue while request 1 is
\* still waiting for its wait event: the grant went to request 1.
C2_Witness ==
    /\ stage[1] = "Marker" /\ wait_event[1] = "pending" /\ life[1] = "live"
    /\ stage[2] = "Qutex" /\ Polled(2, "NotReady")
    /\ Granted(1) /\ ~Granted(2)

\* C3 (guard drop): a RwGuard exists only while the lock is held, and the
\* step that drops it hands the lock to the head of the queue, in that very
\* step, when a request is queued, and leaves the lock free otherwise.
C3_GuardDropAdvances ==
    /\ [](guards # {} => state = 1)
    /\ [][\A r \in Reqs :
            (r \in guards /\ r \notin guards') =>
                IF queue # <<>>
                THEN /\ ~Granted(Head(queue))
                     /\ rx'[Head(queue)] = send(rx[Head(queue)])
                     /\ queue' = Tail(queue)
                     /\ state' = 1
                ELSE state' = 0 /\ queue' = queue /\ rx' = rx]_vars

\* A guard was just dropped and the lock went straight to a request that has
\* not been polled past Marker yet.
C3_Witness ==
    /\ last.op = "drop_guard"
    /\ state = 1
    /\ \E q \in Reqs : rx[q] = "Fired" /\ stage[q] = "Marker" /\ life[q] = "live"

\* The lock is held on behalf of request r: it was given to r and has not
\* been released since (a release frees the lock or hands it to a later
\* request).
HeldBy(r) == state = 1 /\ LastGranted = r

\* C4 (drop of a granted request): once a request that was given the lock
\* has been dropped before it resolved, the next call of process_queue (made
\* by the poll of another request) grants the head of the queue.
C4_DropGrantedHandsOver ==
    [][\A d \in Reqs :
          ( /\ life[d] = "dropped" /\ rx[d] \in {"Fired", "Taken"} /\ rw_vec[d]
            /\ HeldBy(d)
            /\ queue # <<>>
            /\ last'.op = "poll" /\ last'.advanced )
          => Granted(Head(queue))']_vars

\* C5 (drop of an ungranted request): a request dropped before its
\* notification fired never comes to hold the lock in front of a live request
\* that is still waiting for it.
C5_DropUngrantedNeverBlocks ==
    \A d \in Reqs : \A r \in Reqs :
        ( /\ life[d] = "dropped" /\ rx[d] = "Lost"
          /\ d < r /\ life[r] = "live" /\ ~Granted(r) )
        => ~HeldBy(d)

\* C6 (error after the grant): when a poll of a request whose notification
\* has fired returns an error other than "already completed", the request
\* does not hold the lock any more.
C6_ErrorReleasesSlot ==
    \A r \in Reqs :
        ( /\ last.op = "poll" /\ last.r = r
          /\ last.res \in {"ErrNoCommandEvent", "ErrEvent"}
          /\ Granted(r) )
        => ~HeldBy(r)

\* C7 (trigger causality): a request's trigger event is complete exactly
\* when its stage is Command (a resolved request is in stage Command), and
\* never while its stage is Marker.
C7_TriggerCausality ==
    \A r \in Reqs :
        /\ trigger_event[r] = "complete" <=> (stage[r] = "Command" \/ Resolved(r))
        /\ stage[r] = "Marker" => trigger_event[r] = "pending"
        /\ Resolved(r) => stage[r] = "Command"

\* A request was granted, set_complete failed and it is still in stage Qutex
\* with its trigger pending, while another request has its trigger complete.
C7_Witness ==
    \E r \in Reqs : \E q \in Reqs :
        /\ stage[r] = "Qutex" /\ rx[r] = "Taken" /\ trigger_event[r] = "pending"
        /\ trigger_event[q] = "complete" /\ stage[q] = "Command"

\* C8 (wait event not complete): a live request in stage Marker whose wait
\* event is pending has not been given the lock.
C8_MarkerNeverGranted ==
    \A r \in Reqs :
        (life[r] = "live" /\ stage[r] = "Marker" /\ wait_event[r] = "pending")
        => ~Granted(r)

\* C9 (resolution order): a request resolves into a RwGuard only when no
\* RwGuard exists and no request created after it has resolved, whatever the
\* order of the polls.
C9_ResolveInOrder ==
    [][\A r \in Reqs :
          (rw_vec[r] /\ ~rw_vec'[r]) =>
              /\ guards = {}
              /\ guards' = {r}
              /\ \A q \in Reqs : q > r => rw_vec[q]]_vars

\* Requests 2 and 3, without wait events and with complete command events,
\* were polled first and wait in stage Qutex; request 1 has just resolved.
C9_Witness ==
    /\ Polled(1, "Ready")
    /\ \A q \in {2, 3} :
        /\ life[q] = "live" /\ stage[q] = "Qutex" /\ wait_event[q] = "none"
        /\ command_event[q] = "complete"
    /\ wait_event[1] = "none"

\* C10 (poll after resolution): a poll of a request that has resolved
\* returns the "already completed" error and changes neither the Qutex nor
\* the request nor the set of guards.
C10_PollAfterReady ==
    [][\A r \in Reqs :
          (Resolved(r) /\ last'.op = "poll" /\ last'.r = r) =>
              /\ last'.res = "ErrAlreadyCompleted"
              /\ UNCHANGED <<queue, state, rx, guards, stage, rw_vec,
                             trigger_event>>]_vars

\* A resolved request whose RwGuard still exists was polled again.
C10_Witness ==
    \E r \in guards : Polled(r, "ErrAlreadyCompleted")

----------------------------------------------------------------------------
\* C11 (lock_pending_event always succeeds): every call of
\* lock_pending_event appends one entry at the tail of the queue and returns
\* a PendingRwGuard in stage Marker, with a pending trigger event and no
\* command event; no call leaves an entry without a PendingRwGuard.
C11_LockPendingEventSucceeds ==
    [][nreq' # nreq =>
          LET r == nreq'
          IN  /\ r = nreq + 1
              /\ queue' = Append(queue, r)
              /\ life'[r] = "live"
              /\ stage'[r] = "Marker" /\ rw_vec'[r] /\ rx'[r] = "Pending"
              /\ trigger_event'[r] = "pending"
              /\ command_event'[r] = "none"]_vars

\* C12 (missing command event is fatal): a poll that reaches poll_command
\* with no command event returns the "No command event set" error, and a
\* request that has been given that error never resolves afterwards.
C12_MissingCommandIsFatal ==
    /\ [](\A r \in Reqs :
            (life[r] = "live" /\ rw_vec[r] /\ stage[r] = "Command"
             /\ command_event[r] = "none") => r \in missed)
    /\ [][\A r \in missed : rw_vec[r] => rw_vec'[r]]_vars

\* The step is a poll of request r.
PollStep(r) == last'.op = "poll" /\ last'.r = r

Rank(st) == CASE st = "Marker" -> 0 [] st = "Qutex" -> 1 [] st = "Command" -> 2

\* C13 (stage order): a request's stage never moves backwards and only its
\* own poll moves it; it enters Command only in a poll that ran poll_qutex
\* and received the grant, and a RwGuard comes only from stage Command with
\* the grant received.
C13_StageOrder ==
    [][\A r \in Reqs :
          /\ Rank(stage'[r]) >= Rank(stage[r])
          /\ stage'[r] # stage[r] => last'.op = "poll" /\ last'.r = r
          /\ (stage'[r] = "Command" /\ stage[r] # "Command") =>
                last'.advanced /\ rx'[r] = "Taken"
          /\ (r \in guards' /\ r \notin guards) =>
                /\ stage'[r] = "Command" /\ rx'[r] = "Taken"
                /\ last' = [op |-> "poll", r |-> r, res |-> "Ready",
                            advanced |-> last'.advanced,
                            from |-> stage[r]]]_vars

\* One poll took a request from Marker through Qutex to Command and gave
\* NotReady on its pending command event.
C13_Witness ==
    \E r \in Reqs :
        /\ Polled(r, "NotReady") /\ last.from = "Marker" /\ last.advanced
        /\ stage[r] = "Command" /\ command_event[r] = "pending"

\* The request cannot leave its stage: its wait event is pending, or the lock
\* is held and its notification has not fired, or its command event is
\* pending.
Blocked(r) ==
    \/ stage[r] = "Marker" /\ wait_event[r] = "pending"
    \/ stage[r] = "Qutex" /\ rx[r] = "Pending" /\ state = 1
    \/ stage[r] = "Command" /\ command_event[r] = "pending"

\* C14 (no needless suspension): a poll returns NotReady only at a stage
\* whose exit condition does not hold; in particular one poll from Marker of
\* the request at the head of the queue, with the lock free, its wait event
\* absent or complete and its command event complete, returns Ready (or the
\* error of an OpenCL call that failed).
C14_NoNeedlessSuspend ==
    /\ [](\A r \in Reqs : Polled(r, "NotReady") => Blocked(r))
    /\ [][\A r \in Reqs :
            ( /\ PollStep(r) /\ rw_vec[r] /\ stage[r] = "Marker"
              /\ wait_event[r] \in {"none", "complete"}
              /\ state = 0 /\ queue # <<>> /\ Head(queue) = r
              /\ command_event[r] = "complete"
              /\ last'.res # "ErrEvent" )
            => /\ last'.res = "Ready"
               /\ r \in guards' /\ stage'[r] = "Command"]_vars

\* A request with a complete wait event went from Marker to Ready in one
\* poll.
C14_Witness ==
    \E r \in Reqs :
        /\ Polled(r, "Ready") /\ last.from = "Marker"
        /\ wait_event[r] = "complete"

\* C15 (suspended in Marker): a poll in stage Marker with a pending wait
\* event returns NotReady (or the error of an OpenCL call that failed), does
\* not call process_queue and leaves the stage, the queue, the lock flag,
\* the channels, the trigger event and the guards as they were.
C15_MarkerSuspendFrame ==
    [][\A r \in Reqs :
          ( /\ PollStep(r) /\ rw_vec[r] /\ stage[r] = "Marker"
            /\ wait_event[r] = "pending" )
          => /\ last'.res \in {"NotReady", "ErrEvent"}
             /\ ~last'.advanced
             /\ stage'[r] = "Marker" /\ trigger_event'[r] = "pending"
             /\ UNCHANGED <<queue, state, rx, stage, rw_vec, trigger_event,
                            guards>>]_vars

\* A request waiting in Marker was polled NotReady while the lock was free
\* and the queue was not empty: process_queue would have had a grant to give.
C15_Witness ==
    \E r \in Reqs :
        /\ Polled(r, "NotReady") /\ stage[r] = "Marker"
        /\ wait_event[r] = "pending"
        /\ state = 0 /\ queue # <<>>

\* C16 (trigger after the grant): a request whose trigger event is complete
\* has received its grant and holds the lock, itself or through its RwGuard,
\* until that guard is dropped; and a poll that got as far as the command
\* event belongs to a request whose trigger event is complete.
C16_TriggerAfterGrant ==
    /\ \A r \in Reqs :
          trigger_event[r] = "complete" =>
              /\ rx[r] = "Taken"
              /\ HeldBy(r) \/ (Resolved(r) /\ r \notin guards)
    /\ (last.op = "poll" /\ last.res \in {"Ready", "ErrNoCommandEvent"}) =>
          trigger_event[last.r] = "complete"

\* A request has its trigger event complete and waits, unresolved, for its
\* command event.
C16_Witness ==
    \E r \in Reqs :
        /\ trigger_event[r] = "complete" /\ rw_vec[r] /\ life[r] = "live"
        /\ Polled(r, "NotReady") /\ command_event[r] = "pending"

\* C17 (idempotent advance): a poll that calls process_queue while the lock
\* is held, or while the queue is empty, fires no notification and leaves
\* the lock flag and the queue as they were.
C17_IdempotentAdvance ==
    [][( /\ last'.op = "poll" /\ last'.advanced
         /\ (state = 1 \/ queue = <<>>) )
       => /\ state' = state
          /\ queue' = queue
          /\ \A q \in Reqs : Granted(q)' <=> Granted(q)]_vars

\* A request in stage Qutex was polled again while the lock was held and
\* other requests were queued.
C17_Witness ==
    \E r \in Reqs :
        /\ Polled(r, "NotReady") /\ last.from = "Qutex" /\ last.advanced
        /\ state = 1 /\ Len(queue) >= 2

\* C19 (failed query surfaced): when is_complete fails on the wait event in
\* stage Marker the poll returns an error and changes nothing; when it fails
\* on the command event the poll returns an error and builds no RwGuard.
C19_QueryFailureSurfaced ==
    /\ [](\A r \in Reqs :
            (life[r] = "live" /\ rw_vec[r]) =>
                /\ (stage[r] = "Marker" /\ wait_event[r] # "none") =>
                      poll_result(Cur, r, "wait_query") = Out(Cur, "ErrEvent")
                /\ LET o == poll_result(Cur, r, "cmd_query")
                   IN  /\ o.res # "Ready"
                       /\ o.s.guards = guards
                       /\ o.s.rw_vec = rw_vec
                       /\ (o.s.stage[r] = "Command" /\ command_event[r] # "none")
                             => o.res = "ErrEvent")
    /\ [][\A r \in Reqs :
            ( /\ PollStep(r) /\ last'.res = "ErrEvent"
              /\ stage'[r] = "Marker" )
            => /\ ~last'.advanced
               /\ trigger_event'[r] = "pending"
               /\ UNCHANGED <<queue, state, rx, stage, rw_vec, trigger_event,
                              guards>>]_vars

\* A poll in stage Marker returned an error although the wait event was
\* complete.
C19_Witness ==
    \E r \in Reqs :
        /\ Polled(r, "ErrEvent") /\ stage[r] = "Marker"
        /\ wait_event[r] = "complete"

\* The request's grant is outstanding: its notification has fired and the
\* lock has not been released for it (only the drop of its RwGuard does).
Outstanding(r) == Granted(r) /\ ~(Resolved(r) /\ r \notin guards)

InQueueStep(r) == pc[r] \in {"poll_pop", "poll_store", "drop_pop", "drop_store"}

\* C18 (one grant per acquisition, interleaved): with process_queue and
\* unlock interleaved at the test-and-set and the pop, at most one grant is
\* outstanding; while the flag is set either exactly one grant is outstanding
\* or the one thread that won the test-and-set is still about to pop; while
\* it is clear no grant is outstanding; and a grant goes to the head of the
\* queue, one at a time, from the thread that won the test-and-set.
C18_OneGrantPerAcquisition ==
    /\ [](LET out == {r \in Reqs : Outstanding(r)}
              win == {r \in Reqs : InQueueStep(r)}
          IN  /\ Cardinality(out) <= 1
              /\ Cardinality(win) <= 1
              /\ state = 0 => (out = {} /\ win = {})
              /\ state = 1 => Cardinality(out) + Cardinality(win) = 1)
    /\ [][\A r \in Reqs :
            (Granted(r)' /\ ~Granted(r)) =>
                /\ queue # <<>> /\ r = Head(queue) /\ queue' = Tail(queue)
                /\ state = 1 /\ state' = 1
                /\ \E t \in Reqs : pc[t] \in {"poll_pop", "drop_pop"}
                                   /\ pc'[t] \notin {"poll_pop", "drop_pop"}
                /\ \A q \in Reqs \ {r} : Granted(q)' <=> Granted(q)]_vars

\* Two threads were inside process_queue together: one won the test-and-set
\* and has popped and granted the head, the other lost it and has not looked
\* at its channel yet, while a third request is still queued.
C18_Witness ==
    \E a \in Reqs : \E b \in Reqs \ {a} :
        /\ pc[a] = "poll_rx" /\ pc[b] = "poll_rx"
        /\ state = 1 /\ queue # <<>>
        /\ \E r \in Reqs : rx[r] = "Fired"

\* C20 (progress): as long as no request has been dropped unresolved, the
\* lock is never held with no RwGuard and no live, unresolved request to
\* hold it; such a state can never be left, so the requests still queued
\* would never resolve.
C20_NoOrphanedLock ==
    (\A d \in Reqs : life[d] = "dropped" => Resolved(d))
    => ~( /\ state = 1
          /\ guards = {}
          /\ ~\E r \in Reqs : life[r] = "live" /\ rw_vec[r] /\ HeldBy(r) )
====
